---- MODULE Spec2Model ----
(***************************************************************************)
(* State-machine model of models/TDGAN_multiD_model.py (TDGANMultiDModel): *)
(* construction, set_input, and optimize_parameters split at its           *)
(* statements (forward, set_requires_grad, zero_grad, backward_D, step,    *)
(* backward_G, step).                                                      *)
(*                                                                         *)
(* Tensors are one-element tensors: a value, the set of networks whose     *)
(* parameters the autograd graph of the tensor reaches (roots), and the    *)
(* network / stream that produced it.  Python lists are functions over     *)
(* 0..n-1 so that the indices of the source are kept.                      *)
(* Loss weights are integers; the source uses floats, so the arithmetic    *)
(* identities checked here are those of exact arithmetic.                  *)
(***************************************************************************)
EXTENDS Integers, Sequences, FiniteSets, TLC

\* ---------------------------------------------------------------- bounds
MaxTask == 3
MaxSteps == 2
NumBatches == 2
ValMod == 5
ParamMod == 3
GradCap == 2
MaxK == 3

\* ------------------------------------------------------------- constants
Nets == {"G", "G_prev", "D0", "D1"}

\* the session modelled is a training session: the options the constructor
\* reads are only declared when is_train (modify_commandline_options)
isTrain == TRUE

\* values of --prev_model_path: empty (the default), a directory holding the
\* checkpoint, a directory without it
PrevPaths == {"", "ckpt_dir", "missing_dir"}

\* loss-weight settings (lambda_G and lambda_D defaults 0.1 / 0.05 scaled to integers)
WeightChoices ==
  { [lambda_digesting_L1 |-> 100, lambda_digesting_perceptual |-> 1,
     lambda_reminding_L1 |-> 10,  lambda_reminding_perceptual |-> 1,
     lambda_G |-> 2, lambda_D |-> 1],
    [lambda_digesting_L1 |-> 3, lambda_digesting_perceptual |-> 5,
     lambda_reminding_L1 |-> 7,  lambda_reminding_perceptual |-> 11,
     lambda_G |-> 1, lambda_D |-> 2],
    [lambda_digesting_L1 |-> 2, lambda_digesting_perceptual |-> 3,
     lambda_reminding_L1 |-> 4,  lambda_reminding_perceptual |-> 6,
     lambda_G |-> 3, lambda_D |-> 3] }

VARIABLES
  pc,            \* "init", "error", "idle", or the next statement of optimize_parameters
  opt,           \* self.opt: task_num, no_lifelong_training, prev_model_path, weights
  loss_names,    \* self.loss_names
  attrs,         \* names of the instance attributes assigned so far
  param,         \* parameters of each network
  grad,          \* accumulated .grad of each network's parameters (0: none / zeroed)
  requires_grad, \* requires_grad of each network's parameters
  prev_loaded,   \* load_prev_model has run
  real_A, real_B,
  fake_B, fake_B_curG, fake_B_prevG,
  lossD,         \* record of the attributes backward_D assigns
  lossG,         \* record of the attributes backward_G assigns
  d_evals,       \* discriminator calls of the current cycle
  trace,         \* statements of optimize_parameters executed in the current cycle
  steps          \* number of optimize_parameters calls started

vars == <<pc, opt, loss_names, attrs, param, grad, requires_grad, prev_loaded,
          real_A, real_B, fake_B, fake_B_curG, fake_B_prevG, lossD, lossG,
          d_evals, trace, steps>>

\* ---------------------------------------------------------------- tensors
Tensor(v, r, n, s) == [val |-> v, roots |-> r, net |-> n, stream |-> s]

DataTensor(v, s) == Tensor(v, {}, "data", s)

Abs(x) == IF x < 0 THEN -x ELSE x

Min(a, b) == IF a < b THEN a ELSE b

\* Python lists: functions over 0 .. n-1
EmptyList == [i \in {} |-> 0]

LenL(list) == Cardinality(DOMAIN list)

\* range(a, b) as the sequence of its values
Range(a, b) == [k \in 1 .. (IF b > a THEN b - a ELSE 0) |-> a + k - 1]

\* ------------------------------------------------- external collaborators
\* forward of a generator / discriminator, the GAN criterion, the VGG feature
\* extractor and the perceptual criterion are opaque: only that they are
\* functions of their arguments and parameters is used.
GenOut(p, x) == (p + x) % ValMod

DiscOut(p, a, b) == (p + a + 2 * b) % ValMod

GANLossVal(pred, target_is_real) == IF target_is_real THEN ValMod - 1 - pred ELSE pred

VggFeat(x) == 2 * x

PerceptualVal(f, g) == Abs(f - g)

\* ------------------------------------------------------ tensor operations
\* net(x) for a generator: the graph of the output reaches the generator's
\* parameters when they require grad, and whatever the input reaches
NetGCall(n, x, s) ==
  Tensor(GenOut(param[n], x.val),
         x.roots \cup (IF requires_grad[n] THEN {n} ELSE {}), n, s)

\* torch.cat((a, b), 1): a pair; the graph reaches what either part reaches
Cat(a, b) == [a |-> a, b |-> b, roots |-> a.roots \cup b.roots]

\* a detach that keeps the graph
DetachNone(ab) == ab

\* tensor.detach(): same data, no graph
Detach(ab) == [ab EXCEPT !.roots = {}]

DName(p) == IF p = 0 THEN "D0" ELSE "D1"

\* self.netD[p](ab)
NetDCall(p, ab) ==
  Tensor(DiscOut(param[DName(p)], ab.a.val, ab.b.val),
         ab.roots \cup (IF requires_grad[DName(p)] THEN {DName(p)} ELSE {}),
         DName(p), ab.a.stream)

criterionGAN(pred, target_is_real) ==
  Tensor(GANLossVal(pred.val, target_is_real), pred.roots, "loss", pred.stream)

\* torch.nn.L1Loss on one-element tensors: |a - b|, differentiable in both
criterionL1(a, b) ==
  Tensor(Abs(a.val - b.val), a.roots \cup b.roots, "loss", a.stream)

vgg_model(x) == Tensor(VggFeat(x.val), x.roots, "feat", x.stream)

criterion_perceptual(f, g) ==
  Tensor(PerceptualVal(f.val, g.val), f.roots \cup g.roots, "loss", f.stream)

TAdd(a, b) == Tensor(a.val + b.val, a.roots \cup b.roots, "loss", -1)

TScale(a, k) == Tensor(a.val * k, a.roots, "loss", -1)

\* loss.backward(): every parameter the graph reaches accumulates a gradient
Backward(loss, g) ==
  [n \in Nets |-> IF n \in loss.roots THEN Min(g[n] + 1, GradCap) ELSE g[n]]

\* optimizer.zero_grad() over the networks the optimizer was built on
ZeroGrad(ns, g) == [n \in Nets |-> IF n \in ns THEN 0 ELSE g[n]]

\* optimizer.step(): parameters with a gradient move
OptStep(ns, p, g) ==
  [n \in Nets |-> IF n \in ns /\ g[n] > 0 THEN (p[n] + 1) % ParamMod ELSE p[n]]

\* self.set_requires_grad(self.netD, flag): BaseModel's helper, which sets
\* requires_grad of every parameter of the listed networks to flag
SetRequiresGradD(rg, flag) ==
  [n \in Nets |-> IF n \in {"D0", "D1"} THEN flag ELSE rg[n]]

\* the all = None; for i: all = list[i] / all += list[i] loops.  The first
\* assignment binds all to the tensor list[0] and += adds in place, so
\* list[0] ends up holding the total as well.
RECURSIVE AccumulateFrom(_, _, _)
AccumulateFrom(list, i, all) ==
  IF i >= LenL(list) THEN all
  ELSE AccumulateFrom(list, i + 1, IF i = 0 THEN list[0] ELSE TAdd(all, list[i]))

AccumulateAll(list) == AccumulateFrom(list, 0, Tensor(0, {}, "none", -1))

AfterAccumulate(list) ==
  [i \in DOMAIN list |-> IF i = 0 THEN AccumulateAll(list) ELSE list[i]]

\* --------------------------------------------------------- configuration
\* line 60: loss names without the reminding terms
NoRetentionInInit(o) == o.task_num = 1 \/ o.no_lifelong_training

\* line 151
RetentionInSetInput(o) == o.task_num > 1 /\ ~o.no_lifelong_training

\* line 167 with the no_lifelong_training flag forgotten
RetentionInForwardNoFlag(o) == o.task_num > 1

\* line 167
RetentionInForward(o) == o.task_num > 1 /\ ~o.no_lifelong_training

\* line 239
RetentionInBackwardG(o) == o.task_num > 1 /\ ~o.no_lifelong_training

\* line 258
NoRetentionInLossG(o) == o.task_num = 1 \/ o.no_lifelong_training

\* the current-task loop over the first two streams
CurrentRangeFirstTwo(o) == Range(0, 2)

\* range(2*task_num-2, 2*task_num)
CurrentRange(o) == Range(2 * o.task_num - 2, 2 * o.task_num)

\* the previous-task loop stopping one stream early
PreviousRangeShort(o) == Range(0, 2 * o.task_num - 3)

\* range(0, 2*task_num-2)
PreviousRange(o) == Range(0, 2 * o.task_num - 2)

\* [f(i) for i in range]: the list the loop appends to
ListOver(r, f(_)) == [k \in 0 .. Len(r) - 1 |-> f(r[k + 1])]

BaseLossNames == {"G_GAN_all", "G_L1_all", "G_perceptual_all", "D_real_all", "D_fake_all"}

RemindingLossNames == {"reminding_L1_all", "reminding_perceptual_all"}

\* the generator optimizer constructed over both generators
OptimizerGNetsBoth == {"G", "G_prev"}

\* networks each optimizer is constructed over (lines 93-97)
OptimizerGNets == {"G"}

OptimizerDNets == {"D0", "D1"}

\* torch.load(path): the checkpoint file exists only in ckpt_dir
CheckpointExists(path) == path = "ckpt_dir"

\* line 85: whether __init__ calls load_prev_model
CallsLoadPrevModel(o) == isTrain /\ o.prev_model_path # ""

\* optimize_parameters with the generator update ahead of the discriminator update
StatementOrderGFirst ==
  << "forward", "disable_D", "zero_G", "backward_G", "step_G",
     "enable_D", "zero_D", "backward_D", "step_D" >>

\* optimize_parameters with the discriminator gradients disabled only after backward_G
StatementOrderLateDisable ==
  << "forward", "enable_D", "zero_D", "backward_D", "step_D",
     "zero_G", "backward_G", "disable_D", "step_G" >>

\* statements of optimize_parameters in program order (lines 266-278)
StatementOrder ==
  << "forward", "enable_D", "zero_D", "backward_D", "step_D",
     "disable_D", "zero_G", "backward_G", "step_G" >>

IndexOf(stmt) == CHOOSE k \in 1 .. Len(StatementOrder) : StatementOrder[k] = stmt

\* where control is after stmt has run
After(stmt) ==
  IF IndexOf(stmt) = Len(StatementOrder) THEN "idle"
  ELSE StatementOrder[IndexOf(stmt) + 1]

\* control is about to run stmt (the first statement runs from idle)
At(stmt) ==
  IF IndexOf(stmt) = 1 THEN pc = "idle" ELSE pc = stmt

NoLossD ==
  [loss_D_fake |-> EmptyList, loss_D_real |-> EmptyList,
   loss_D_fake_all |-> Tensor(0, {}, "none", -1),
   loss_D_real_all |-> Tensor(0, {}, "none", -1),
   loss_D |-> Tensor(0, {}, "none", -1)]

NoLossG ==
  [loss_G_GAN |-> EmptyList, loss_G_L1 |-> EmptyList, loss_G_perceptual |-> EmptyList,
   loss_G_GAN_all |-> Tensor(0, {}, "none", -1),
   loss_G_L1_all |-> Tensor(0, {}, "none", -1),
   loss_G_perceptual_all |-> Tensor(0, {}, "none", -1),
   loss_reminding_L1 |-> EmptyList, loss_reminding_perceptual |-> EmptyList,
   loss_reminding_L1_all |-> Tensor(0, {}, "none", -1),
   loss_reminding_perceptual_all |-> Tensor(0, {}, "none", -1),
   terms |-> {},
   loss_G |-> Tensor(0, {}, "none", -1)]

\* ------------------------------------------------------------------ Init
\* the options are parsed, the four networks are built with independent
\* initial parameters that require grad (define_G / define_D, lines 73-83)
Init ==
  /\ pc = "init"
  /\ \E t \in 1 .. MaxTask, nl \in BOOLEAN, path \in PrevPaths, w \in WeightChoices :
        opt = [task_num |-> t, no_lifelong_training |-> nl,
               prev_model_path |-> path, w |-> w]
  /\ loss_names = {}
  /\ attrs = {}
  /\ \E seed \in 0 .. ParamMod - 1 :
        param = [n \in Nets |->
                   CASE n = "G" -> seed
                     [] n = "G_prev" -> (seed + 1) % ParamMod
                     [] n = "D0" -> (seed + 2) % ParamMod
                     [] OTHER -> (2 * seed) % ParamMod]
  /\ grad = [n \in Nets |-> 0]
  /\ requires_grad = [n \in Nets |-> TRUE]
  /\ prev_loaded = FALSE
  /\ real_A = EmptyList
  /\ real_B = EmptyList
  /\ fake_B = EmptyList
  /\ fake_B_curG = EmptyList
  /\ fake_B_prevG = EmptyList
  /\ lossD = NoLossD
  /\ lossG = NoLossG
  /\ d_evals = {}
  /\ trace = << >>
  /\ steps = 0

\* --------------------------------------------------------------- actions
\* __init__ (lines 53-102) with load_prev_model (lines 104-119)
Construct ==
  /\ pc = "init"
  /\ loss_names' = IF NoRetentionInInit(opt) THEN BaseLossNames
                   ELSE BaseLossNames \cup RemindingLossNames
  /\ IF CallsLoadPrevModel(opt)
       THEN IF CheckpointExists(opt.prev_model_path)
              THEN /\ \E ckpt \in 0 .. ParamMod - 1 :
                        param' = [param EXCEPT !["G_prev"] = ckpt, !["G"] = ckpt]
                   /\ prev_loaded' = TRUE
                   /\ pc' = "idle"
              ELSE \* torch.load raises; construction is aborted
                   /\ pc' = "error"
                   /\ UNCHANGED <<param, prev_loaded>>
       ELSE /\ pc' = "idle"
            /\ UNCHANGED <<param, prev_loaded>>
  /\ UNCHANGED <<opt, attrs, grad, requires_grad, real_A, real_B, fake_B,
                 fake_B_curG, fake_B_prevG, lossD, lossG, d_evals, trace, steps>>

\* set_input (lines 130-155): batch b of the data loader
SetInput ==
  /\ pc = "idle"
  /\ \E b \in 0 .. NumBatches - 1 :
       /\ real_A' = [i \in 0 .. 2 * opt.task_num - 1 |-> DataTensor((b + i) % ValMod, i)]
       /\ real_B' = [i \in 0 .. 2 * opt.task_num - 1 |-> DataTensor((2 * b + i + 1) % ValMod, i)]
  /\ attrs' = attrs \cup {"real_A", "real_B", "real_A_cur1", "real_A_cur2", "real_B_cur1", "real_B_cur2"}
                    \cup (IF RetentionInSetInput(opt)
                          THEN {"real_A_prev1", "real_A_prev2", "real_B_prev1", "real_B_prev2"}
                          ELSE {})
  /\ UNCHANGED <<pc, opt, loss_names, param, grad, requires_grad, prev_loaded,
                 fake_B, fake_B_curG, fake_B_prevG, lossD, lossG, d_evals, trace, steps>>

\* forward (lines 157-178), first statement of optimize_parameters (line 266)
Forward ==
  /\ At("forward")
  /\ "real_A" \in attrs
  /\ steps < MaxSteps
  /\ LET cur(i) == NetGCall("G", real_A[i], i)
         curG(i) == NetGCall("G", real_A[i], i)
         prevG(i) == NetGCall("G_prev", real_A[i], i)
     IN /\ fake_B' = ListOver(CurrentRange(opt), cur)
        /\ IF RetentionInForward(opt)
             THEN /\ fake_B_curG' = ListOver(PreviousRange(opt), curG)
                  /\ fake_B_prevG' = ListOver(PreviousRange(opt), prevG)
                  /\ attrs' = attrs \cup {"fake_B", "fake_B_cur1", "fake_B_cur2",
                                           "fake_B_curG", "fake_B_prevG",
                                           "fake_B_cur_prev1", "fake_B_cur_prev2",
                                           "fake_B_prev1", "fake_B_prev2"}
             ELSE /\ attrs' = attrs \cup {"fake_B", "fake_B_cur1", "fake_B_cur2"}
                  /\ UNCHANGED <<fake_B_curG, fake_B_prevG>>
  /\ steps' = steps + 1
  /\ trace' = << "forward" >>
  /\ d_evals' = {}
  /\ pc' = After("forward")
  /\ UNCHANGED <<opt, loss_names, param, grad, requires_grad, prev_loaded,
                 real_A, real_B, lossD, lossG>>

\* line 268
EnableD ==
  /\ At("enable_D")
  /\ requires_grad' = SetRequiresGradD(requires_grad, TRUE)
  /\ trace' = Append(trace, "enable_D")
  /\ pc' = After("enable_D")
  /\ UNCHANGED <<opt, loss_names, attrs, param, grad, prev_loaded, real_A, real_B,
                 fake_B, fake_B_curG, fake_B_prevG, lossD, lossG, d_evals, steps>>

\* lines 269-270
ZeroD ==
  /\ At("zero_D")
  /\ grad' = ZeroGrad(OptimizerDNets, grad)
  /\ trace' = Append(trace, "zero_D")
  /\ pc' = After("zero_D")
  /\ UNCHANGED <<opt, loss_names, attrs, param, requires_grad, prev_loaded, real_A, real_B,
                 fake_B, fake_B_curG, fake_B_prevG, lossD, lossG, d_evals, steps>>

\* the discriminator call records of one loop of backward_D / backward_G
DEval(phase, kind, i, ab) ==
  [phase |-> phase, kind |-> kind, d |-> i % 2, stream |-> ab.a.stream,
   img_net |-> ab.b.net, img_stream |-> ab.b.stream, loop_i |-> i]

\* backward_D (lines 180-207), line 271
FakeABForD(i) == Detach(Cat(real_A[i], fake_B[i % 2]))

RealAB(i) == Cat(real_A[i], real_B[i])

LossDFake(i) == criterionGAN(NetDCall(i % 2, FakeABForD(i)), FALSE)

LossDReal(i) == criterionGAN(NetDCall(i % 2, RealAB(i)), TRUE)

ComposeLossD(fake_all, real_all, o) == TScale(TAdd(fake_all, real_all), o.w.lambda_D)

BackwardD ==
  /\ At("backward_D")
  /\ LET r == CurrentRange(opt)
         fakes == ListOver(r, LossDFake)
         reals == ListOver(r, LossDReal)
         loss == ComposeLossD(AccumulateAll(fakes), AccumulateAll(reals), opt)
     IN /\ lossD' = [loss_D_fake |-> AfterAccumulate(fakes),
                     loss_D_real |-> AfterAccumulate(reals),
                     loss_D_fake_all |-> AccumulateAll(fakes),
                     loss_D_real_all |-> AccumulateAll(reals),
                     loss_D |-> loss]
        /\ grad' = Backward(loss, grad)
        /\ d_evals' = d_evals
              \cup {DEval("D", "fake", r[k], FakeABForD(r[k])) : k \in 1 .. Len(r)}
              \cup {DEval("D", "real", r[k], RealAB(r[k])) : k \in 1 .. Len(r)}
  /\ attrs' = attrs \cup {"loss_D_fake", "loss_D_real", "loss_D_fake_all",
                           "loss_D_real_all", "loss_D"}
  /\ trace' = Append(trace, "backward_D")
  /\ pc' = After("backward_D")
  /\ UNCHANGED <<opt, loss_names, param, requires_grad, prev_loaded, real_A, real_B,
                 fake_B, fake_B_curG, fake_B_prevG, lossG, steps>>

\* lines 272-273
StepD ==
  /\ At("step_D")
  /\ param' = OptStep(OptimizerDNets, param, grad)
  /\ trace' = Append(trace, "step_D")
  /\ pc' = After("step_D")
  /\ UNCHANGED <<opt, loss_names, attrs, grad, requires_grad, prev_loaded, real_A, real_B,
                 fake_B, fake_B_curG, fake_B_prevG, lossD, lossG, d_evals, steps>>

\* line 275
DisableD ==
  /\ At("disable_D")
  /\ requires_grad' = SetRequiresGradD(requires_grad, FALSE)
  /\ trace' = Append(trace, "disable_D")
  /\ pc' = After("disable_D")
  /\ UNCHANGED <<opt, loss_names, attrs, param, grad, prev_loaded, real_A, real_B,
                 fake_B, fake_B_curG, fake_B_prevG, lossD, lossG, d_evals, steps>>

\* line 276
ZeroG ==
  /\ At("zero_G")
  /\ grad' = ZeroGrad(OptimizerGNets, grad)
  /\ trace' = Append(trace, "zero_G")
  /\ pc' = After("zero_G")
  /\ UNCHANGED <<opt, loss_names, attrs, param, requires_grad, prev_loaded, real_A, real_B,
                 fake_B, fake_B_curG, fake_B_prevG, lossD, lossG, d_evals, steps>>

\* backward_G (lines 209-263), line 277
FakeABForG(i) == Cat(real_A[i], fake_B[i % 2])

LossGGAN(i) == criterionGAN(NetDCall(i % 2, FakeABForG(i)), TRUE)

LossGL1(i) == criterionL1(fake_B[i % 2], real_B[i])

LossGPerceptual(i) == criterion_perceptual(vgg_model(fake_B[i % 2]), vgg_model(real_B[i]))

LossRemindingL1(i) == criterionL1(fake_B_curG[i], fake_B_prevG[i])

LossRemindingPerceptual(i) ==
  criterion_perceptual(vgg_model(fake_B_curG[i]), vgg_model(fake_B_prevG[i]))

\* lines 258-262 with the reminding perceptual term left out
ComposeLossGDropTerm(gan, l1, perc, rl1, rperc, o) ==
  IF NoRetentionInLossG(o)
    THEN TScale(TAdd(TAdd(gan, TScale(l1, o.w.lambda_digesting_L1)),
                     TScale(perc, o.w.lambda_digesting_perceptual)),
                o.w.lambda_G)
    ELSE TScale(TAdd(TAdd(TAdd(gan, TScale(l1, o.w.lambda_digesting_L1)),
                          TScale(perc, o.w.lambda_digesting_perceptual)),
                     TScale(rl1, o.w.lambda_reminding_L1)),
                o.w.lambda_G)

\* lines 258-262
ComposeLossG(gan, l1, perc, rl1, rperc, o) ==
  IF NoRetentionInLossG(o)
    THEN TScale(TAdd(TAdd(gan, TScale(l1, o.w.lambda_digesting_L1)),
                     TScale(perc, o.w.lambda_digesting_perceptual)),
                o.w.lambda_G)
    ELSE TScale(TAdd(TAdd(TAdd(TAdd(gan, TScale(l1, o.w.lambda_digesting_L1)),
                               TScale(perc, o.w.lambda_digesting_perceptual)),
                          TScale(rl1, o.w.lambda_reminding_L1)),
                     TScale(rperc, o.w.lambda_reminding_perceptual)),
                o.w.lambda_G)

\* the accumulators the expression of lines 258-262 reads
TermsOfLossG(o) ==
  IF NoRetentionInLossG(o)
    THEN {"loss_G_GAN_all", "loss_G_L1_all", "loss_G_perceptual_all"}
    ELSE {"loss_G_GAN_all", "loss_G_L1_all", "loss_G_perceptual_all",
          "loss_reminding_L1_all", "loss_reminding_perceptual_all"}

BackwardG ==
  /\ At("backward_G")
  /\ LET r == CurrentRange(opt)
         pr == PreviousRange(opt)
         gans == ListOver(r, LossGGAN)
         l1s == ListOver(r, LossGL1)
         percs == ListOver(r, LossGPerceptual)
         ret == RetentionInBackwardG(opt)
         rl1s == IF ret THEN ListOver(pr, LossRemindingL1) ELSE lossG.loss_reminding_L1
         rpercs == IF ret THEN ListOver(pr, LossRemindingPerceptual)
                   ELSE lossG.loss_reminding_perceptual
         rl1_all == IF ret THEN AccumulateAll(rl1s) ELSE lossG.loss_reminding_L1_all
         rperc_all == IF ret THEN AccumulateAll(rpercs)
                      ELSE lossG.loss_reminding_perceptual_all
         loss == ComposeLossG(AccumulateAll(gans), AccumulateAll(l1s), AccumulateAll(percs),
                              rl1_all, rperc_all, opt)
     IN /\ lossG' = [loss_G_GAN |-> AfterAccumulate(gans),
                     loss_G_L1 |-> AfterAccumulate(l1s),
                     loss_G_perceptual |-> AfterAccumulate(percs),
                     loss_G_GAN_all |-> AccumulateAll(gans),
                     loss_G_L1_all |-> AccumulateAll(l1s),
                     loss_G_perceptual_all |-> AccumulateAll(percs),
                     loss_reminding_L1 |-> IF ret THEN AfterAccumulate(rl1s) ELSE rl1s,
                     loss_reminding_perceptual |-> IF ret THEN AfterAccumulate(rpercs) ELSE rpercs,
                     loss_reminding_L1_all |-> rl1_all,
                     loss_reminding_perceptual_all |-> rperc_all,
                     terms |-> TermsOfLossG(opt),
                     loss_G |-> loss]
        /\ grad' = Backward(loss, grad)
        /\ d_evals' = d_evals
              \cup {DEval("G", "fake", r[k], FakeABForG(r[k])) : k \in 1 .. Len(r)}
        /\ attrs' = attrs \cup {"loss_G_GAN", "loss_G_L1", "loss_G_perceptual",
                                 "loss_G_GAN_all", "loss_G_L1_all", "loss_G_perceptual_all",
                                 "loss_G"}
                          \cup (IF ret THEN {"loss_reminding_L1", "loss_reminding_perceptual",
                                             "loss_reminding_L1_all",
                                             "loss_reminding_perceptual_all"}
                                ELSE {})
  /\ trace' = Append(trace, "backward_G")
  /\ pc' = After("backward_G")
  /\ UNCHANGED <<opt, loss_names, param, requires_grad, prev_loaded, real_A, real_B,
                 fake_B, fake_B_curG, fake_B_prevG, lossD, steps>>

\* line 278
StepG ==
  /\ At("step_G")
  /\ param' = OptStep(OptimizerGNets, param, grad)
  /\ trace' = Append(trace, "step_G")
  /\ pc' = After("step_G")
  /\ UNCHANGED <<opt, loss_names, attrs, grad, requires_grad, prev_loaded, real_A, real_B,
                 fake_B, fake_B_curG, fake_B_prevG, lossD, lossG, d_evals, steps>>

Next ==
  \/ Construct
  \/ SetInput
  \/ Forward
  \/ EnableD
  \/ ZeroD
  \/ BackwardD
  \/ StepD
  \/ DisableD
  \/ ZeroG
  \/ BackwardG
  \/ StepG

Spec == Init /\ [][Next]_vars

TypeOK ==
  /\ pc \in {"init", "error", "idle"} \cup {StatementOrder[k] : k \in 1 .. Len(StatementOrder)}
  /\ \A n \in Nets : param[n] \in 0 .. ParamMod - 1 /\ grad[n] \in 0 .. GradCap
  /\ steps \in 0 .. MaxSteps

\* ------------------------------------------------------------ properties
\* retention (reminding) is requested by the configuration
Retention(o) == o.task_num > 1 /\ ~o.no_lifelong_training

InCycle == pc \notin {"init", "error", "idle"}

RECURSIVE SumSeq(_)
SumSeq(q) == IF Len(q) = 0 THEN 0 ELSE Head(q) + SumSeq(Tail(q))

\* sum of the values of f(i) over the indices i of r
SumVals(r, f(_)) == SumSeq([k \in 1 .. Len(r) |-> f(r[k]).val])

ExpectedOrder ==
  << "forward", "enable_D", "zero_D", "backward_D", "step_D",
     "disable_D", "zero_G", "backward_G", "step_G" >>

\* C1: within every optimize_parameters call the statements run in the order
\* forward, enable D grads, zero D optimizers, backward_D, step D optimizers,
\* disable D grads, zero G optimizer, backward_G, step G optimizer; each once.
C1_CycleOrder ==
  /\ Len(trace) <= Len(ExpectedOrder)
  /\ \A k \in 1 .. Len(trace) : trace[k] = ExpectedOrder[k]
  /\ InCycle => Len(trace) < Len(ExpectedOrder) /\ pc = ExpectedOrder[Len(trace) + 1]
  /\ (pc = "idle" /\ steps > 0) => trace = ExpectedOrder

C1_Witness == pc = "idle" /\ steps >= 2 /\ trace = ExpectedOrder

\* C2: for task_num >= 1 the reminding loss names, the previous-task forward
\* outputs, the reminding accumulators and the retention branch of loss_G are
\* present exactly when task_num > 1 and lifelong training is not disabled;
\* otherwise loss_G is made of the adversarial, L1 and perceptual terms only.
C2_RetentionIff ==
  /\ pc # "init" =>
        /\ Retention(opt) => RemindingLossNames \subseteq loss_names
        /\ ~Retention(opt) => RemindingLossNames \cap loss_names = {}
  /\ "fake_B" \in attrs =>
        /\ Retention(opt) => {"fake_B_curG", "fake_B_prevG"} \subseteq attrs
        /\ ~Retention(opt) => {"fake_B_curG", "fake_B_prevG"} \cap attrs = {}
  /\ "loss_G" \in attrs =>
        /\ Retention(opt) =>
              /\ {"loss_reminding_L1", "loss_reminding_perceptual",
                  "loss_reminding_L1_all", "loss_reminding_perceptual_all"} \subseteq attrs
              /\ {"loss_reminding_L1_all", "loss_reminding_perceptual_all"}
                    \subseteq lossG.terms
        /\ ~Retention(opt) =>
              /\ {"loss_reminding_L1", "loss_reminding_perceptual",
                  "loss_reminding_L1_all", "loss_reminding_perceptual_all"} \cap attrs = {}
              /\ lossG.terms = {"loss_G_GAN_all", "loss_G_L1_all", "loss_G_perceptual_all"}
  /\ (pc = "step_G" /\ ~Retention(opt)) =>
        lossG.loss_G.val =
          ( SumVals(CurrentRange(opt), LossGGAN)
            + SumVals(CurrentRange(opt), LossGL1) * opt.w.lambda_digesting_L1
            + SumVals(CurrentRange(opt), LossGPerceptual) * opt.w.lambda_digesting_perceptual )
          * opt.w.lambda_G

C2_Witness ==
  /\ pc = "step_G"
  /\ opt.task_num > 1
  /\ opt.no_lifelong_training
  /\ lossG.loss_G.val > 0
  /\ "loss_reminding_L1" \notin attrs

\* the documented weighted sum, from the per-stream loss values
DocumentedLossG(o) ==
  IF Retention(o)
    THEN ( SumVals(CurrentRange(o), LossGGAN)
           + SumVals(CurrentRange(o), LossGL1) * o.w.lambda_digesting_L1
           + SumVals(CurrentRange(o), LossGPerceptual) * o.w.lambda_digesting_perceptual
           + SumVals(PreviousRange(o), LossRemindingL1) * o.w.lambda_reminding_L1
           + SumVals(PreviousRange(o), LossRemindingPerceptual) * o.w.lambda_reminding_perceptual )
         * o.w.lambda_G
    ELSE ( SumVals(CurrentRange(o), LossGGAN)
           + SumVals(CurrentRange(o), LossGL1) * o.w.lambda_digesting_L1
           + SumVals(CurrentRange(o), LossGPerceptual) * o.w.lambda_digesting_perceptual )
         * o.w.lambda_G

\* C3: right after backward_G, loss_G is the documented weighted sum of the
\* per-stream terms (no term omitted or duplicated), each accumulator is the
\* sum of its per-stream values, and with lambda_G scaled by k the composed
\* loss is k times loss_G.
C3_WeightedSum ==
  pc = "step_G" =>
    /\ lossG.loss_G.val = DocumentedLossG(opt)
    /\ lossG.loss_G_GAN_all.val = SumVals(CurrentRange(opt), LossGGAN)
    /\ lossG.loss_G_L1_all.val = SumVals(CurrentRange(opt), LossGL1)
    /\ lossG.loss_G_perceptual_all.val = SumVals(CurrentRange(opt), LossGPerceptual)
    /\ Retention(opt) =>
          /\ lossG.loss_reminding_L1_all.val = SumVals(PreviousRange(opt), LossRemindingL1)
          /\ lossG.loss_reminding_perceptual_all.val
                = SumVals(PreviousRange(opt), LossRemindingPerceptual)
    /\ \A k \in 1 .. MaxK :
          ComposeLossG(lossG.loss_G_GAN_all, lossG.loss_G_L1_all, lossG.loss_G_perceptual_all,
                       lossG.loss_reminding_L1_all, lossG.loss_reminding_perceptual_all,
                       [opt EXCEPT !.w.lambda_G = k * @]).val
            = k * lossG.loss_G.val

C3_Witness ==
  /\ pc = "step_G"
  /\ Retention(opt)
  /\ opt.task_num = 3
  /\ lossG.loss_G_GAN_all.val > 0
  /\ lossG.loss_G_L1_all.val > 0
  /\ lossG.loss_G_perceptual_all.val > 0
  /\ lossG.loss_reminding_L1_all.val > 0
  /\ lossG.loss_reminding_perceptual_all.val > 0

\* C4: once load_prev_model has run, no step changes the parameters of
\* netG_prev.
C4_FrozenParams ==
  [][prev_loaded => param'["G_prev"] = param["G_prev"]]_vars

C4_Witness ==
  /\ prev_loaded
  /\ pc = "idle"
  /\ steps >= 2
  /\ Retention(opt)
  /\ grad["G_prev"] > 0

\* C5: backward_D gives the generators no gradient: the graph of loss_D
\* reaches no generator parameter and the generators' accumulated gradients
\* are the same before and after backward_D.
C5_NoGeneratorGradFromD ==
  [][(pc = "backward_D" /\ pc' = "step_D") =>
       /\ lossD'.loss_D.roots \cap {"G", "G_prev"} = {}
       /\ grad'["G"] = grad["G"]
       /\ grad'["G_prev"] = grad["G_prev"]]_vars

C5_Witness ==
  /\ pc = "step_D"
  /\ steps >= 2
  /\ grad["G"] = 1
  /\ grad["D0"] > 0
  /\ grad["D1"] > 0

\* C6: whenever backward_G runs both discriminators have requires_grad False,
\* backward_G leaves their gradients alone, and from disabling the gradients
\* to the end of the generator step their parameters do not change.
C6_GeneratorStepKeepsD ==
  [][/\ pc = "backward_G" =>
          /\ ~requires_grad["D0"] /\ ~requires_grad["D1"]
          /\ grad'["D0"] = grad["D0"] /\ grad'["D1"] = grad["D1"]
     /\ pc \in {"disable_D", "zero_G", "backward_G", "step_G"} =>
          param'["D0"] = param["D0"] /\ param'["D1"] = param["D1"]]_vars

C6_Witness ==
  /\ pc = "idle"
  /\ steps >= 2
  /\ grad["D0"] = 1
  /\ grad["D1"] = 1
  /\ grad["G"] > 0

\* C7: with retention active, forward yields 2 current-task outputs of netG
\* and, for each of the 2t-2 previous-task streams 0 .. 2t-3, one output of
\* netG and one of netG_prev on that stream's input; backward_G accumulates
\* 2t-2 reminding-L1 and 2t-2 reminding-perceptual terms (t = 2: 2, 2 + 2, 2).
C7_RetentionStreams ==
  /\ ("fake_B" \in attrs /\ Retention(opt)) =>
        /\ DOMAIN fake_B = 0 .. 1
        /\ \A k \in DOMAIN fake_B : fake_B[k].net = "G"
        /\ DOMAIN fake_B_curG = 0 .. 2 * opt.task_num - 3
        /\ DOMAIN fake_B_prevG = 0 .. 2 * opt.task_num - 3
        /\ \A i \in DOMAIN fake_B_curG :
              /\ fake_B_curG[i].net = "G" /\ fake_B_curG[i].stream = i
              /\ fake_B_prevG[i].net = "G_prev" /\ fake_B_prevG[i].stream = i
        /\ opt.task_num = 2 => LenL(fake_B_curG) = 2 /\ LenL(fake_B_prevG) = 2
  /\ ("loss_G" \in attrs /\ Retention(opt)) =>
        /\ LenL(lossG.loss_reminding_L1) = 2 * opt.task_num - 2
        /\ LenL(lossG.loss_reminding_perceptual) = 2 * opt.task_num - 2
        /\ opt.task_num = 2 => LenL(lossG.loss_reminding_L1) = 2
  /\ (pc = "step_G" /\ Retention(opt)) =>
        /\ lossG.loss_reminding_L1_all.val
              = SumVals(Range(0, 2 * opt.task_num - 2), LossRemindingL1)
        /\ lossG.loss_reminding_perceptual_all.val
              = SumVals(Range(0, 2 * opt.task_num - 2), LossRemindingPerceptual)

C7_Witness ==
  /\ pc = "step_G"
  /\ Retention(opt)
  /\ opt.task_num = 3
  /\ LenL(fake_B_curG) = 4
  /\ LenL(lossG.loss_reminding_L1) = 4
  /\ lossG.loss_reminding_L1_all.val > 0

\* C8 (as claimed): the outputs of the frozen generator carry no graph and
\* no gradient ever reaches the parameters of netG_prev.
C8_NoGradThroughFrozen ==
  /\ \A i \in DOMAIN fake_B_prevG : fake_B_prevG[i].roots = {}
  /\ grad["G_prev"] = 0

\* C9 (as claimed): a constructed training session with retention requested
\* has loaded the frozen generator; without a usable prev_model_path
\* construction ends in the error state.
C9_FatalWithoutPrevModel ==
  (pc \notin {"init", "error"} /\ isTrain /\ Retention(opt)) => prev_loaded

\* C10: the current-task streams are 2t-2 and 2t-1; fake_B[i mod 2] is netG's
\* output on real_A[i]; every discriminator call of backward_D and backward_G
\* is by discriminator i mod 2 on stream i's source image paired with stream
\* i's generated or real target image, so each discriminator sees exactly one
\* current-task stream and no previous-task stream.
C10_StreamAlignment ==
  LET cur == {2 * opt.task_num - 2, 2 * opt.task_num - 1}
  IN /\ InCycle =>
          \A i \in cur :
            /\ fake_B[i % 2].net = "G"
            /\ fake_B[i % 2].stream = i
            /\ fake_B[i % 2].val = GenOut(param["G"], real_A[i].val)
     /\ \A e \in d_evals :
          /\ e.stream \in cur
          /\ e.loop_i = e.stream
          /\ e.d = e.stream % 2
          /\ e.img_stream = e.stream
          /\ e.kind = "fake" => e.img_net = "G"
          /\ e.kind = "real" => e.img_net = "data"
     /\ pc \in {"step_D", "disable_D", "zero_G", "backward_G", "step_G"} =>
          \A d \in {0, 1} :
            {e.stream : e \in {x \in d_evals : x.d = d}} = {2 * opt.task_num - 2 + d}
     /\ pc = "step_G" =>
          {<<e.d, e.stream>> : e \in {x \in d_evals : x.phase = "G"}}
            = {<<0, 2 * opt.task_num - 2>>, <<1, 2 * opt.task_num - 1>>}

C10_Witness ==
  /\ pc = "step_G"
  /\ opt.task_num = 3
  /\ Cardinality(d_evals) = 6

====
